---- MODULE Spec2Model ----
(***************************************************************************)
(* Model of the data-access and relationship layer of prism-microservices *)
(* (src/domain/utils/crud.py, src/domain/utils/db.py and the entity        *)
(* classes under src/domain/models).  The document store is modelled as    *)
(* one sequence of documents per collection (insertion order = natural     *)
(* order); every store call is one atomic step, and a handler with several *)
(* awaited store calls is a chain of steps linked by the caller's pc.      *)
(***************************************************************************)
EXTENDS Integers, Sequences, FiniteSets, TLC

\* ------------------------------------------------------------------ bounds
NumProcs == 2
MaxDocs == 3
MaxTime == 1
MaxRuns == 2
MaxNames == 2
MaxFailures == 2
MaxMachines == 2
MaxReadings == 2

Procs == 1..NumProcs
Times == 0..MaxTime
RunIds == 1..MaxRuns
MachineNames == 1..MaxNames

\* ------------------------------------------------------------- identifiers
\* Python None (an unset optional argument or attribute).
None == -1

\* A bson ObjectId, the 24-hex string of an ObjectId, a string that is not
\* the hex form of any ObjectId, and an id argument left at None.
Oid(n) == [kind |-> "oid", val |-> n]
HexStr(n) == [kind |-> "str", val |-> n]
BadStr == [kind |-> "str", val |-> None]
NoneId == [kind |-> "none", val |-> None]

\* bson ObjectId.is_valid: an ObjectId instance or a well-formed hex string.
ObjectIdIsValid(v) == v.kind = "oid" \/ (v.kind = "str" /\ v.val # None)

\* if isinstance(x, str) and ObjectId.is_valid(x): x = ObjectId(x)
NormalizeId(v) == IF v.kind = "str" /\ ObjectIdIsValid(v) THEN Oid(v.val) ELSE v

\* A validator that lets every value through.
PyObjectIdAcceptsAll(v) == TRUE

\* PyObjectId.validate: raises ValueError unless ObjectId.is_valid(v).
PyObjectIdValidates(v) == ObjectIdIsValid(v)

VARIABLES
    db,          \* collection name -> sequence of stored documents
    indexes,     \* the index definitions the store holds
    now,         \* the wall clock read by datetime.now()
    nextId,      \* the next ObjectId the default factory generates
    pc,          \* per caller: position inside the handler it runs
    local,       \* per caller: the frame of the call in flight
    ret,         \* the step just taken: handler, outcome, argument
    okResolves   \* per failure id: resolve_failure calls that returned True

vars == <<db, indexes, now, nextId, pc, local, ret, okResolves>>

\* The forms in which a caller passes an id: an ObjectId or its hex string,
\* for each of the ids S, or a malformed string.
IdForms(S) == {Oid(n) : n \in S} \cup {HexStr(n) : n \in S} \cup {BadStr}

\* The ids of the documents of a collection.
StoredIds(c) == {db[c][i]._id.val : i \in DOMAIN db[c]}

\* Id arguments: the id of a stored document of the entity meant, or a
\* valid ObjectId (0) that no document carries.  create_failure never looks
\* its machine up, so there any id handed out so far stands for a machine.
MachineIdArgs == IdForms(StoredIds("machines") \cup {0})
FailureIdArgs == IdForms(StoredIds("failures") \cup {0})
AnyIdArgs == IdForms(0..(nextId - 1))
OptTimes == {None} \cup Times

\* x or datetime.now(), for an optional datetime x
OrNow(t) == IF t = None THEN now ELSE t

\* -------------------------------------------------------------- outcomes
\* tag: "id" (an ObjectId was returned, val), "bool" (val 1/0), "list"
\* (docs), "step" (an intermediate store call went through), or the name of
\* the exception that reached the caller.  arg: the id argument of the call.
Ret(o, t, v, a, l) == [op |-> o, tag |-> t, val |-> v, arg |-> a, docs |-> l]
NoRet == Ret("none", "none", None, NoneId, <<>>)
RetId(o, n, a) == Ret(o, "id", n, a, <<>>)
RetBool(o, b, a) == Ret(o, "bool", IF b THEN 1 ELSE 0, a, <<>>)
RetList(o, l) == Ret(o, "list", Len(l), NoneId, l)
RetRaise(o, e, a) == Ret(o, e, None, a, <<>>)
RetStep(o, a) == Ret(o, "step", None, a, <<>>)

NoFrame == [op |-> "none"]

\* The handler returns (or raises) to caller p.
Done(p, r) ==
    /\ pc' = [pc EXCEPT ![p] = "idle"]
    /\ local' = [local EXCEPT ![p] = NoFrame]
    /\ ret' = r

\* ------------------------------------------------------- store primitives
Range(s) == {s[i] : i \in DOMAIN s}

\* A query filter {field: value, ...} selects the documents that carry each
\* of its fields with the value given.
Matches(d, q) == \A f \in DOMAIN q : f \in DOMAIN d /\ d[f] = q[f]

\* Positions of the documents of coll that satisfy the filter q.
Matching(coll, q) == {i \in DOMAIN coll : Matches(coll[i], q)}

\* update_one(filter, {"$set": fields}): the first matching document in
\* natural order gets the fields merged in; nothing happens without a match.
UpdateOne(coll, q, fields) ==
    IF Matching(coll, q) = {} THEN coll
    ELSE LET i == CHOOSE k \in Matching(coll, q) : \A j \in Matching(coll, q) : k <= j
         IN [coll EXCEPT ![i] = fields @@ coll[i]]

\* result.matched_count of update_one
MatchedCount(coll, q) == IF Matching(coll, q) = {} THEN 0 ELSE 1

\* delete_one(filter): the first matching document is removed.
DeleteOne(coll, q) ==
    IF Matching(coll, q) = {} THEN coll
    ELSE LET i == CHOOSE k \in Matching(coll, q) : \A j \in Matching(coll, q) : k <= j
         IN [j \in 1..(Len(coll) - 1) |-> IF j < i THEN coll[j] ELSE coll[j + 1]]

\* update_many(filter, {"$set": fields})
UpdateMany(coll, q, fields) ==
    [i \in DOMAIN coll |-> IF Matches(coll[i], q) THEN fields @@ coll[i] ELSE coll[i]]

\* IndexModel([(field, direction), ...], unique=...)
IndexModel(c, keys, dirs, u) == [coll |-> c, keys |-> keys, dirs |-> dirs, unique |-> u]
ASCENDING == 1
DESCENDING == -1

\* A variant of init_db's index set in which the machine_id index of the
\* failures collection is declared unique.
InitDbIndexesUniqueFailureMachine ==
    {IndexModel("machines", <<"machine_id">>, <<ASCENDING>>, TRUE),
     IndexModel("failures", <<"machine_id">>, <<ASCENDING>>, TRUE),
     IndexModel("clusters", <<"mlflow_run_id">>, <<ASCENDING>>, TRUE)}

\* The index definitions init_db creates, collection by collection.
InitDbIndexes ==
    {IndexModel("machines", <<"machine_id">>, <<ASCENDING>>, TRUE),
     IndexModel("machines", <<"last_seen">>, <<DESCENDING>>, FALSE),
     IndexModel("failures", <<"machine_id">>, <<ASCENDING>>, FALSE),
     IndexModel("failures", <<"start_time">>, <<DESCENDING>>, FALSE),
     IndexModel("failures", <<"is_active">>, <<ASCENDING>>, FALSE),
     IndexModel("readings", <<"machine_id">>, <<ASCENDING>>, FALSE),
     IndexModel("readings", <<"timestamp">>, <<DESCENDING>>, FALSE),
     IndexModel("readings", <<"failure_id">>, <<ASCENDING>>, FALSE),
     IndexModel("predictions", <<"reading_id">>, <<ASCENDING>>, FALSE),
     IndexModel("predictions", <<"prediction_time">>, <<DESCENDING>>, FALSE),
     IndexModel("predictions", <<"reading_id", "model_version">>, <<ASCENDING, ASCENDING>>, TRUE),
     IndexModel("clusters", <<"mlflow_run_id">>, <<ASCENDING>>, TRUE),
     IndexModel("clusters", <<"created_at">>, <<DESCENDING>>, FALSE),
     IndexModel("clusters", <<"is_active">>, <<ASCENDING>>, FALSE),
     IndexModel("drift", <<"detection_time">>, <<DESCENDING>>, FALSE),
     IndexModel("versions", <<"version">>, <<ASCENDING>>, FALSE),
     IndexModel("versions", <<"created_at">>, <<DESCENDING>>, FALSE),
     IndexModel("versions", <<"is_processed">>, <<ASCENDING>>, FALSE)}

\* The value of document d under the key of an index (a field the document
\* lacks counts as null).
IndexKey(d, keys) ==
    [i \in DOMAIN keys |-> IF keys[i] \in DOMAIN d THEN d[keys[i]] ELSE None]

\* A store that enforces the uniqueness of _id alone.
DuplicateKeyIdOnly(c, d) == \E e \in Range(db[c]) : e._id = d._id

\* insert_one is rejected (DuplicateKeyError) when the _id is taken or a
\* unique index of the collection already holds the document's key.
DuplicateKey(c, d) ==
    \/ \E e \in Range(db[c]) : e._id = d._id
    \/ \E ix \in indexes :
          /\ ix.coll = c
          /\ ix.unique
          /\ \E e \in Range(db[c]) : IndexKey(e, ix.keys) = IndexKey(d, ix.keys)

\* create_document: insert_one(document.dict(by_alias=True, exclude_none=True))
\* into the collection c of the document's class.  The result r is the new
\* id, the store's DuplicateKeyError, or a ConnectionError when the call
\* fails (ok = FALSE); r is left to the calling handler.
InsertOutcome(c, d, ok) ==
    IF ~ok THEN "ConnectionError"
    ELSE IF DuplicateKey(c, d) THEN "DuplicateKeyError"
    ELSE "id"

\* An insert that replaces the content of the collection by the new document.
create_document_replacing(c, d, ok) ==
    IF InsertOutcome(c, d, ok) = "id"
    THEN db' = [db EXCEPT ![c] = <<d>>]
    ELSE db' = db

create_document(c, d, ok) ==
    IF InsertOutcome(c, d, ok) = "id"
    THEN db' = [db EXCEPT ![c] = Append(@, d)]
    ELSE db' = db

\* ------------------------------------------------------------------ init
Collections == {"machines", "failures", "readings", "predictions", "clusters", "drift", "versions"}

\* An empty database, before or after index provisioning has run on it.
Init ==
    /\ db = [c \in Collections |-> <<>>]
    /\ indexes \in {{}, InitDbIndexes}
    /\ now = 0
    /\ nextId = 1
    /\ pc = [p \in Procs |-> "idle"]
    /\ local = [p \in Procs |-> NoFrame]
    /\ ret = NoRet
    /\ okResolves = [n \in 1..MaxDocs |-> 0]

\* The clock advances between any two steps.
Tick ==
    /\ now < MaxTime
    /\ now' = now + 1
    /\ ret' = RetStep("tick", NoneId)
    /\ UNCHANGED <<db, indexes, nextId, pc, local, okResolves>>

\* A caller dies between two awaited store calls of a handler.
Crash(p) ==
    /\ pc[p] # "idle"
    /\ Done(p, Ret(local[p].op, "crash",
                   IF "reading_id" \in DOMAIN local[p] THEN local[p].reading_id ELSE None,
                   NoneId, <<>>))
    /\ UNCHANGED <<db, indexes, now, nextId, okResolves>>

AllIdle == \A q \in Procs : pc[q] = "idle"

\* Number of calls in flight that still have an entity to construct.
Pending == Cardinality({q \in Procs : pc[q] = "cc_insert"})

\* ------------------------------------------------------------- clusters
\* {"is_active": True}
IsActive == [is_active |-> TRUE]

ActiveClusters == {d \in Range(db["clusters"]) : d.is_active}

\* A create_cluster_model that skips the bulk deactivation.
DeactivateNone(coll) == coll

\* update_many({"is_active": True}, {"$set": {"is_active": False}})
DeactivateAll(coll) == UpdateMany(coll, IsActive, [is_active |-> FALSE])

\* An insert that deactivates the stored Clusters whatever is_active says.
ClusterInsertDeactivating(p, run, act, valid, pre, ok) ==
    LET d == [_id |-> Oid(nextId), mlflow_run_id |-> run,
              created_at |-> now, is_active |-> act]
        a == [kind |-> "pre", val |-> pre]
    IN IF ~valid
       THEN /\ db' = db
            /\ nextId' = nextId
            /\ Done(p, RetRaise("create_cluster_model", "ValidationError", a))
       ELSE /\ nextId' = nextId + 1
            /\ IF InsertOutcome("clusters", d, ok) = "id"
               THEN /\ db' = [db EXCEPT !["clusters"] = Append(DeactivateAll(@), d)]
                    /\ Done(p, RetId("create_cluster_model", nextId, a))
               ELSE /\ db' = db
                    /\ Done(p, RetRaise("create_cluster_model", InsertOutcome("clusters", d, ok), a))

\* Cluster(...) followed by create_document (crud.py 354-364).  The fields
\* other than mlflow_run_id, created_at and is_active are payload: valid says
\* whether they pass the class's field validation.  pre is the number of
\* clusters that were active when the call began (None when is_active=False).
ClusterInsert(p, run, act, valid, pre, ok) ==
    LET d == [_id |-> Oid(nextId), mlflow_run_id |-> run,
              created_at |-> now, is_active |-> act]
        a == [kind |-> "pre", val |-> pre]
    IN IF ~valid
       THEN /\ db' = db
            /\ nextId' = nextId
            /\ Done(p, RetRaise("create_cluster_model", "ValidationError", a))
       ELSE /\ nextId' = nextId + 1
            /\ create_document("clusters", d, ok)
            /\ IF InsertOutcome("clusters", d, ok) = "id"
               THEN Done(p, RetId("create_cluster_model", nextId, a))
               ELSE Done(p, RetRaise("create_cluster_model", InsertOutcome("clusters", d, ok), a))

\* create_cluster_model up to and including its first awaited store call.
create_cluster_model(p) ==
    /\ pc[p] = "idle"
    /\ nextId + Pending <= MaxDocs
    /\ \E run \in RunIds, act \in BOOLEAN, valid \in BOOLEAN, ok \in BOOLEAN :
          IF act
          THEN IF ok
               THEN /\ db' = [db EXCEPT !["clusters"] = DeactivateAll(@)]
                    /\ pc' = [pc EXCEPT ![p] = "cc_insert"]
                    /\ local' = [local EXCEPT ![p] =
                          [op |-> "create_cluster_model", mlflow_run_id |-> run,
                           valid |-> valid, pre |-> Cardinality(ActiveClusters)]]
                    /\ ret' = RetStep("create_cluster_model", NoneId)
                    /\ nextId' = nextId
               ELSE /\ db' = db
                    /\ nextId' = nextId
                    /\ Done(p, RetRaise("create_cluster_model", "ConnectionError", NoneId))
          ELSE ClusterInsert(p, run, FALSE, valid, None, ok)
    /\ UNCHANGED <<indexes, now, okResolves>>

\* The insert that follows the bulk deactivation.
cc_insert(p) ==
    /\ pc[p] = "cc_insert"
    /\ \E ok \in BOOLEAN :
          ClusterInsert(p, local[p].mlflow_run_id, TRUE, local[p].valid, local[p].pre, ok)
    /\ UNCHANGED <<indexes, now, okResolves>>

\* Any number of callers, any interleaving.
NextCluster ==
    \/ Tick
    \/ \E p \in Procs : create_cluster_model(p)
    \/ \E p \in Procs : cc_insert(p)
    \/ \E p \in Procs : Crash(p)

SpecCluster == Init /\ [][NextCluster]_vars

\* No concurrent writers: a call begins only when no other call is in flight.
NextClusterSeq ==
    \/ Tick
    \/ \E p \in Procs : AllIdle /\ create_cluster_model(p)
    \/ \E p \in Procs : cc_insert(p)
    \/ \E p \in Procs : Crash(p)

SpecClusterSeq == Init /\ [][NextClusterSeq]_vars

\* C1: in every reachable state, under any interleaving of concurrent
\* create_cluster_model calls, at most one Cluster document is active.
C1_AtMostOneActiveCluster == Cardinality(ActiveClusters) <= 1

\* C2: with no concurrent writers, a create_cluster_model(is_active=True)
\* that returns an id, begun while a Cluster was active, leaves exactly one
\* active Cluster, the one it inserted.
C2_ExactlyOneActiveAfter ==
    (/\ ret.op = "create_cluster_model"
     /\ ret.tag = "id"
     /\ ret.arg.val # None
     /\ ret.arg.val >= 1)
    => {d._id.val : d \in ActiveClusters} = {ret.val}

\* A successful activating registration that found an active Cluster.
C2_Witness ==
    /\ ret.op = "create_cluster_model"
    /\ ret.tag = "id"
    /\ ret.arg.val # None
    /\ ret.arg.val >= 1
    /\ Len(db["clusters"]) >= 2

\* ------------------------------------------------------------- failures
ActiveFailures == {d \in Range(db["failures"]) : d.is_active}

\* Failure(start_time=..., is_active=True, machine_id=...) as stored by
\* dict(by_alias=True, exclude_none=True): end_time is None and is left out.
FailureDoc(id, start, mid) ==
    [_id |-> Oid(id), start_time |-> start, is_active |-> TRUE, machine_id |-> mid]

\* Failure(**doc): an attribute the document lacks takes its default.
FailureEntity(doc) ==
    IF "end_time" \in DOMAIN doc THEN doc ELSE doc @@ [end_time |-> None]

create_failure(p) ==
    /\ pc[p] = "idle"
    /\ nextId + Pending <= MaxDocs
    /\ Len(db["failures"]) < MaxFailures
    /\ \E machine_id \in AnyIdArgs, start_time \in OptTimes, ok \in BOOLEAN :
          LET mid == NormalizeId(machine_id)
              d == FailureDoc(nextId, OrNow(start_time), mid)
              out == InsertOutcome("failures", d, ok)
          IN IF ~PyObjectIdValidates(mid)
             THEN /\ db' = db
                  /\ nextId' = nextId
                  /\ Done(p, RetRaise("create_failure", "ValidationError", mid))
             ELSE /\ nextId' = nextId + 1
                  /\ create_document("failures", d, ok)
                  /\ IF out = "id"
                     THEN Done(p, RetId("create_failure", nextId, mid))
                     ELSE Done(p, RetRaise("create_failure", out, mid))
    /\ UNCHANGED <<indexes, now, okResolves>>

\* A filter that selects the failure by id alone.
ResolveFilterIdOnly(fid) == [_id |-> fid]

\* {"_id": failure_id, "is_active": True}
ResolveFilter(fid) == [_id |-> fid, is_active |-> TRUE]

\* An update that clears the flag and sets no end time.
ResolveSetFlagOnly(end_time) == [is_active |-> FALSE]

\* {"$set": {"end_time": end_time or datetime.now(), "is_active": False}}
ResolveSet(end_time) == [end_time |-> OrNow(end_time), is_active |-> FALSE]

\* The same update issued with upsert=True.
ResolveUpsert(coll, fid, end_time) ==
    IF Matching(coll, ResolveFilter(fid)) = {}
    THEN Append(coll, [_id |-> fid] @@ ResolveSet(end_time))
    ELSE UpdateOne(coll, ResolveFilter(fid), ResolveSet(end_time))

\* db[Failure.Config.collection].update_one(filter, update)
ResolveUpdate(coll, fid, end_time) ==
    UpdateOne(coll, ResolveFilter(fid), ResolveSet(end_time))

resolve_failure(p) ==
    /\ pc[p] = "idle"
    /\ \E failure_id \in FailureIdArgs, end_time \in OptTimes, ok \in BOOLEAN :
          LET fid == NormalizeId(failure_id)
              matched == MatchedCount(db["failures"], ResolveFilter(fid)) > 0
          IN IF ~ok
             THEN /\ db' = db
                  /\ okResolves' = okResolves
                  /\ Done(p, RetRaise("resolve_failure", "ConnectionError", fid))
             ELSE /\ db' = [db EXCEPT !["failures"] = ResolveUpdate(@, fid, end_time)]
                  /\ okResolves' = IF matched
                                   THEN [okResolves EXCEPT ![fid.val] = @ + 1]
                                   ELSE okResolves
                  /\ Done(p, RetBool("resolve_failure", matched, fid))
    /\ UNCHANGED <<indexes, now, nextId>>

\* find(filter).sort(key, DESCENDING) over the documents S: every order
\* with non-increasing keys (the store chooses among equal keys).
SortedDesc(S, key) ==
    {s \in [1..Cardinality(S) -> S] :
        /\ \A i, j \in 1..Cardinality(S) : i < j => s[i][key] >= s[j][key]
        /\ \A i, j \in 1..Cardinality(S) : i # j => s[i]._id # s[j]._id}

\* The empty filter, which lets every failure through.
AnyFailure == [f \in {} |-> TRUE]

\* {"is_active": True}
ActiveFailureFilter == [is_active |-> TRUE]

get_active_failures(p) ==
    /\ pc[p] = "idle"
    /\ \E ok \in BOOLEAN :
          IF ok
          THEN \E s \in SortedDesc({d \in Range(db["failures"]) : Matches(d, ActiveFailureFilter)},
                                   "start_time") :
                  Done(p, RetList("get_active_failures",
                                  [i \in DOMAIN s |-> FailureEntity(s[i])]))
          ELSE Done(p, RetRaise("get_active_failures", "ConnectionError", NoneId))
    /\ UNCHANGED <<db, indexes, now, nextId, okResolves>>

NextFailure ==
    \/ Tick
    \/ \E p \in Procs : create_failure(p)
    \/ \E p \in Procs : resolve_failure(p)
    \/ \E p \in Procs : get_active_failures(p)

SpecFailure == Init /\ [][NextFailure]_vars

\* The positions of the failure (if any) a normalised id designates.
FailureWithId(coll, a) == {i \in DOMAIN coll : coll[i]._id = a}

\* C3: for every Failure and every interleaving of resolve_failure calls on
\* it, at most one call returns True, and is_active never goes from False
\* back to True.
C3_ResolveOnce ==
    [][/\ \A n \in DOMAIN okResolves : okResolves'[n] <= 1
       /\ \A i \in DOMAIN db["failures"] :
             ~db["failures"][i].is_active => ~db'["failures"][i].is_active]_vars

\* A failure that was resolved, on which a later resolve_failure returned False.
C3_Witness ==
    /\ ret.op = "resolve_failure"
    /\ ret.tag = "bool"
    /\ ret.val = 0
    /\ \E i \in FailureWithId(db["failures"], ret.arg) :
          /\ ~db["failures"][i].is_active
          /\ okResolves[db["failures"][i]._id.val] = 1

\* C4: resolve_failure on a Failure that is already resolved does not
\* return True (it returns False whenever the store call goes through) and
\* leaves the failures collection, so the document's end_time and
\* is_active, exactly as it was, whatever end_time is passed.
C4_ResolveResolved ==
    [][(/\ ret'.op = "resolve_failure"
        /\ \E i \in FailureWithId(db["failures"], ret'.arg) : ~db["failures"][i].is_active)
       => /\ ret'.tag \in {"bool", "ConnectionError"}
          /\ ret'.tag = "bool" => ret'.val = 0
          /\ db'["failures"] = db["failures"]]_vars

\* resolve_failure returned False for a resolved failure whose end_time
\* differs from the clock the call would have written.
C4_Witness ==
    /\ ret.op = "resolve_failure"
    /\ ret.tag = "bool"
    /\ ret.val = 0
    /\ \E i \in FailureWithId(db["failures"], ret.arg) :
          /\ ~db["failures"][i].is_active
          /\ db["failures"][i].end_time # now

\* C5: resolve_failure with an id that matches no Failure document does not
\* return True (it returns False whenever the store call goes through) and
\* leaves every collection unchanged.
C5_ResolveUnknown ==
    [][(/\ ret'.op = "resolve_failure"
        /\ FailureWithId(db["failures"], ret'.arg) = {})
       => /\ ret'.tag \in {"bool", "ConnectionError"}
          /\ ret'.tag = "bool" => ret'.val = 0
          /\ db' = db]_vars

\* resolve_failure returned False for an id no failure carries, while the
\* collection holds an active failure.
C5_Witness ==
    /\ ret.op = "resolve_failure"
    /\ ret.tag = "bool"
    /\ ret.val = 0
    /\ FailureWithId(db["failures"], ret.arg) = {}
    /\ ActiveFailures # {}

\* The positions of the failures that reference machine m.
FailuresOf(m) == {i \in DOMAIN db["failures"] : db["failures"][i].machine_id = m}

\* C6: create_failure is never rejected because of the failures already
\* stored: it raises only for a malformed machine id or a failed store call,
\* and otherwise appends one active Failure and leaves every stored Failure,
\* the active ones of the same machine included, as it was.
C6_OpenNeverRejected ==
    [][ret'.op = "create_failure"
       => /\ ret'.tag \in {"id", "ValidationError", "ConnectionError"}
          /\ ret'.tag = "ValidationError" => ~ObjectIdIsValid(ret'.arg)
          /\ ret'.tag = "id" =>
                /\ Len(db'["failures"]) = Len(db["failures"]) + 1
                /\ SubSeq(db'["failures"], 1, Len(db["failures"])) = db["failures"]
                /\ db'["failures"][Len(db'["failures"])] =
                      [_id |-> Oid(ret'.val),
                       start_time |-> db'["failures"][Len(db'["failures"])].start_time,
                       is_active |-> TRUE, machine_id |-> ret'.arg]]_vars

\* A second create_failure for a machine has just succeeded while the first
\* failure of that machine is still active.
C6_Witness ==
    /\ ret.op = "create_failure"
    /\ ret.tag = "id"
    /\ Cardinality({i \in FailuresOf(ret.arg) : db["failures"][i].is_active}) = 2

\* C7: when a machine has two failures and resolve_failure has returned True
\* for exactly one of them, exactly one of the two is active; and the list
\* get_active_failures returns holds each Failure whose is_active is true,
\* of whatever machine, exactly once, and no other.
C7_SingleResolve ==
    /\ \A k \in DOMAIN db["failures"] :
          LET F == FailuresOf(db["failures"][k].machine_id)
          IN (/\ Cardinality(F) = 2
              /\ Cardinality({i \in F : okResolves[db["failures"][i]._id.val] = 1}) = 1)
             => Cardinality({i \in F : db["failures"][i].is_active}) = 1
    /\ (ret.op = "get_active_failures" /\ ret.tag = "list")
          => /\ {ret.docs[i]._id : i \in DOMAIN ret.docs} = {d._id : d \in ActiveFailures}
             /\ Len(ret.docs) = Cardinality(ActiveFailures)

\* Two failures of one machine, one of them resolved, and get_active_failures
\* has just returned the other one.
C7_Witness ==
    /\ ret.op = "get_active_failures"
    /\ ret.tag = "list"
    /\ Len(ret.docs) = 1
    /\ Cardinality(FailuresOf(ret.docs[1].machine_id)) = 2
    /\ \E i \in FailuresOf(ret.docs[1].machine_id) :
          okResolves[db["failures"][i]._id.val] = 1

\* ----------------------------------------------------- machines, readings
\* A Machine whose two clock reads are stored the wrong way round.
MachineDocSwapped(id, name, first, last) ==
    [_id |-> Oid(id), machine_id |-> name, first_seen |-> last, last_seen |-> first]

\* Machine(machine_id=..., first_seen=datetime.now(), last_seen=datetime.now())
MachineDoc(id, name, first, last) ==
    [_id |-> Oid(id), machine_id |-> name, first_seen |-> first, last_seen |-> last]

\* The external machine_id a create_machine call was given.
NameArg(machine_id) == [kind |-> "name", val |-> machine_id]

\* The two clock reads of create_machine: the clock may move between them.
create_machine(p) ==
    /\ pc[p] = "idle"
    /\ nextId + Pending <= MaxDocs
    /\ Len(db["machines"]) < MaxMachines
    /\ \E machine_id \in MachineNames, t2 \in {now, now + 1} \cap Times, ok \in BOOLEAN :
          LET d == MachineDoc(nextId, machine_id, now, t2)
              out == InsertOutcome("machines", d, ok)
          IN /\ now' = t2
             /\ nextId' = nextId + 1
             /\ create_document("machines", d, ok)
             /\ IF out = "id"
                THEN Done(p, RetId("create_machine", nextId, NameArg(machine_id)))
                ELSE Done(p, RetRaise("create_machine", out, NameArg(machine_id)))
    /\ UNCHANGED <<indexes, okResolves>>

\* A $set that also rewrites first_seen.
TouchSetBoth(t) == [last_seen |-> t, first_seen |-> t]

\* {"$set": {"last_seen": datetime.now()}}
TouchSet(t) == [last_seen |-> t]

\* The same update issued with upsert=True.
TouchUpsert(coll, mid, t) ==
    IF Matching(coll, [_id |-> mid]) = {}
    THEN Append(coll, [_id |-> mid] @@ TouchSet(t))
    ELSE UpdateOne(coll, [_id |-> mid], TouchSet(t))

\* db[Machine.Config.collection].update_one({"_id": machine_id}, {"$set": ...})
TouchUpdate(coll, mid, t) == UpdateOne(coll, [_id |-> mid], TouchSet(t))

update_machine_last_seen(p) ==
    /\ pc[p] = "idle"
    /\ \E machine_id \in MachineIdArgs, ok \in BOOLEAN :
          LET mid == NormalizeId(machine_id)
              matched == MatchedCount(db["machines"], [_id |-> mid]) > 0
          IN IF ~ok
             THEN /\ db' = db
                  /\ Done(p, RetRaise("update_machine_last_seen", "ConnectionError", mid))
             ELSE /\ db' = [db EXCEPT !["machines"] = TouchUpdate(@, mid, now)]
                  /\ Done(p, RetBool("update_machine_last_seen", matched, mid))
    /\ UNCHANGED <<indexes, now, nextId, okResolves>>

\* A serialisation that stores an unset failure_id as null.
ReadingDocWithNull(id, ts, mid, fid) ==
    [_id |-> Oid(id), timestamp |-> ts, values |-> 1, machine_id |-> mid,
     failure_id |-> fid]

\* SensorReading(...).dict(by_alias=True, exclude_none=True): failure_id is
\* left out when it is None.  values stands for the sensor mapping.
ReadingDoc(id, ts, mid, fid) ==
    IF fid = NoneId
    THEN [_id |-> Oid(id), timestamp |-> ts, values |-> 1, machine_id |-> mid]
    ELSE [_id |-> Oid(id), timestamp |-> ts, values |-> 1, machine_id |-> mid,
          failure_id |-> fid]

\* create_sensor_reading up to and including the insert of the reading.
\* valid says whether values passes the class's field validation.
create_sensor_reading(p) ==
    /\ pc[p] = "idle"
    /\ nextId + Pending <= MaxDocs
    /\ Len(db["readings"]) < MaxReadings
    /\ \E machine_id \in MachineIdArgs, failure_id \in FailureIdArgs \cup {NoneId},
          timestamp \in OptTimes, valid \in BOOLEAN, ok \in BOOLEAN :
          LET mid == NormalizeId(machine_id)
              fid == NormalizeId(failure_id)
              d == ReadingDoc(nextId, OrNow(timestamp), mid, fid)
              out == InsertOutcome("readings", d, ok)
          IN IF ~(/\ valid
                  /\ PyObjectIdValidates(mid)
                  /\ (fid = NoneId \/ PyObjectIdValidates(fid)))
             THEN /\ db' = db
                  /\ nextId' = nextId
                  /\ Done(p, RetRaise("create_sensor_reading", "ValidationError", mid))
             ELSE /\ nextId' = nextId + 1
                  /\ create_document("readings", d, ok)
                  /\ IF out = "id"
                     THEN /\ pc' = [pc EXCEPT ![p] = "sr_touch"]
                          /\ local' = [local EXCEPT ![p] =
                                [op |-> "create_sensor_reading", machine_id |-> mid,
                                 reading_id |-> nextId, t_ins |-> now]]
                          /\ ret' = RetStep("create_sensor_reading", mid)
                     ELSE Done(p, RetRaise("create_sensor_reading", out, mid))
    /\ UNCHANGED <<indexes, now, okResolves>>

\* A touch step that is issued again when it fails.
sr_touch_retry(p) ==
    /\ pc[p] = "sr_touch"
    /\ \E ok \in BOOLEAN :
          IF ok
          THEN /\ db' = [db EXCEPT !["machines"] = TouchUpdate(@, local[p].machine_id, now)]
               /\ Done(p, RetId("create_sensor_reading", local[p].reading_id,
                                local[p].machine_id))
          ELSE /\ db' = db
               /\ pc' = pc
               /\ local' = local
               /\ ret' = RetStep("create_sensor_reading", local[p].machine_id)
    /\ UNCHANGED <<indexes, now, nextId, okResolves>>

\* A touch step that deletes the reading again when the touch fails.
sr_touch_rollback(p) ==
    /\ pc[p] = "sr_touch"
    /\ \E ok \in BOOLEAN :
          IF ok
          THEN /\ db' = [db EXCEPT !["machines"] = TouchUpdate(@, local[p].machine_id, now)]
               /\ Done(p, RetId("create_sensor_reading", local[p].reading_id,
                                local[p].machine_id))
          ELSE /\ db' = [db EXCEPT !["readings"] =
                            DeleteOne(@, [_id |-> Oid(local[p].reading_id)])]
               /\ Done(p, Ret("create_sensor_reading", "ConnectionError",
                              local[p].reading_id, local[p].machine_id, <<>>))
    /\ UNCHANGED <<indexes, now, nextId, okResolves>>

\* await update_machine_last_seen(db, machine_id); return reading_id.  The
\* touch's own result is dropped; its failure reaches the caller.
sr_touch(p) ==
    /\ pc[p] = "sr_touch"
    /\ \E ok \in BOOLEAN :
          IF ok
          THEN /\ db' = [db EXCEPT !["machines"] = TouchUpdate(@, local[p].machine_id, now)]
               /\ Done(p, RetId("create_sensor_reading", local[p].reading_id,
                                local[p].machine_id))
          ELSE /\ db' = db
               /\ Done(p, Ret("create_sensor_reading", "ConnectionError",
                              local[p].reading_id, local[p].machine_id, <<>>))
    /\ UNCHANGED <<indexes, now, nextId, okResolves>>

NextReading ==
    \/ Tick
    \/ \E p \in Procs : create_machine(p)
    \/ \E p \in Procs : update_machine_last_seen(p)
    \/ \E p \in Procs : create_sensor_reading(p)
    \/ \E p \in Procs : sr_touch(p)
    \/ \E p \in Procs : Crash(p)

SpecReading == Init /\ [][NextReading]_vars

\* The positions of the machine (if any) with the given _id.
MachineWithId(coll, mid) == {i \in DOMAIN coll : coll[i]._id = mid}

\* machines' is machines with nothing but the last_seen of position i changed.
OnlyLastSeenChanged(i) ==
    \E t \in Times :
        db'["machines"] = [db["machines"] EXCEPT ![i] = [@ EXCEPT !.last_seen = t]]

\* C8 as stated: a create_sensor_reading that returns for a machine id that
\* matched no Machine has created that Machine with first_seen = last_seen;
\* for a machine that exists it changes only that machine's last_seen.
C8_ImplicitMachine ==
    [][\A p \in Procs :
          (pc[p] = "sr_touch" /\ pc'[p] = "idle" /\ ret'.tag = "id")
          => IF MachineWithId(db["machines"], local[p].machine_id) = {}
             THEN \E i \in DOMAIN db'["machines"] :
                     /\ db'["machines"][i]._id = local[p].machine_id
                     /\ db'["machines"][i].first_seen = db'["machines"][i].last_seen
             ELSE \E i \in MachineWithId(db["machines"], local[p].machine_id) :
                     OnlyLastSeenChanged(i)]_vars

\* C8 amended: neither step of create_sensor_reading creates a Machine; for
\* a machine id that matches no Machine the machines collection is left
\* unchanged, and for a machine that exists the call changes only that
\* machine's last_seen.
C8_NoImplicitMachine ==
    [][\A p \in Procs :
          /\ (pc[p] = "idle" /\ pc'[p] = "sr_touch") => db'["machines"] = db["machines"]
          /\ (pc[p] = "sr_touch" /\ pc'[p] = "idle" /\ ret'.tag = "id")
             => IF MachineWithId(db["machines"], local[p].machine_id) = {}
                THEN db'["machines"] = db["machines"]
                ELSE \E i \in MachineWithId(db["machines"], local[p].machine_id) :
                        OnlyLastSeenChanged(i)]_vars

\* create_sensor_reading has returned the id of a stored reading whose
\* machine_id matches no Machine, while another Machine is stored.
C8_Witness ==
    /\ ret.op = "create_sensor_reading"
    /\ ret.tag = "id"
    /\ MachineWithId(db["machines"], ret.arg) = {}
    /\ db["machines"] # <<>>
    /\ \E i \in DOMAIN db["readings"] :
          /\ db["readings"][i]._id = Oid(ret.val)
          /\ db["readings"][i].machine_id = ret.arg

\* C9: no step removes or alters a stored SensorReading; in particular when
\* the last-seen touch of create_sensor_reading fails, or the caller crashes
\* before it, the reading the first step inserted is still stored.
C9_ReadingKept ==
    [][/\ \A i \in DOMAIN db["readings"] :
             /\ i \in DOMAIN db'["readings"]
             /\ db'["readings"][i] = db["readings"][i]
       /\ (/\ ret'.op = "create_sensor_reading"
           /\ ret'.tag \in {"ConnectionError", "crash"}
           /\ ret'.val # None)
          => \E i \in DOMAIN db'["readings"] : db'["readings"][i]._id = Oid(ret'.val)]_vars

\* The touch has just failed and the reading of that call is stored.
C9_Witness ==
    /\ ret.op = "create_sensor_reading"
    /\ ret.tag = "ConnectionError"
    /\ ret.val # None
    /\ \E i \in DOMAIN db["readings"] : db["readings"][i]._id = Oid(ret.val)

\* C10: the step by which create_sensor_reading returns for a Machine that
\* exists sets that machine's last_seen to a time not earlier than the time
\* at which the reading was inserted, and changes nothing else in the
\* machines collection.
C10_TouchFrame ==
    [][\A p \in Procs :
          (/\ pc[p] = "sr_touch"
           /\ pc'[p] = "idle"
           /\ ret'.tag = "id"
           /\ MachineWithId(db["machines"], local[p].machine_id) # {})
          => \E i \in MachineWithId(db["machines"], local[p].machine_id) :
                /\ OnlyLastSeenChanged(i)
                /\ db'["machines"][i].last_seen >= local[p].t_ins
                /\ db'["machines"][i].last_seen = now]_vars

\* create_sensor_reading has returned for an existing machine whose last_seen
\* now lies after its first_seen, while a second Machine is stored.
C10_Witness ==
    /\ ret.op = "create_sensor_reading"
    /\ ret.tag = "id"
    /\ Len(db["machines"]) = 2
    /\ \E i \in MachineWithId(db["machines"], ret.arg) :
          db["machines"][i].last_seen > db["machines"][i].first_seen

\* ---------------------------------------------------- entities and documents
\* The Optional attributes of each entity class (their default is None).
OptionalFields(c) ==
    CASE c = "failures" -> {"end_time"}
      [] c = "readings" -> {"failure_id"}
      [] c = "predictions" -> {"confidence_score", "mlflow_run_id"}
      [] OTHER -> {}

\* Python None as the value of attribute f (an id attribute holds NoneId).
NoneOf(f) == IF f = "failure_id" THEN NoneId ELSE None

\* document.dict(by_alias=True, exclude_none=True): the attributes that are
\* None are left out of the stored document.
Dict(c, e) ==
    [f \in {g \in DOMAIN e : ~(g \in OptionalFields(c) /\ e[g] = NoneOf(g))} |-> e[f]]

\* A deserialisation that takes the document as it is.
EntityAsStored(c, doc) == doc

\* model_class(**doc): an attribute the document lacks takes its default.
Entity(c, doc) == doc @@ [f \in OptionalFields(c) |-> NoneOf(f)]

\* find_one(filter): the first matching document in natural order, if any.
FindOne(coll, q) ==
    IF Matching(coll, q) = {} THEN <<>>
    ELSE LET i == CHOOSE k \in Matching(coll, q) : \A j \in Matching(coll, q) : k <= j
         IN <<coll[i]>>

\* find_one({"_id": doc_id}) followed by model_class(**doc): the entity in a
\* one-element list, or the empty list for None.
Fetch(c, coll, id) ==
    [i \in DOMAIN FindOne(coll, [_id |-> id]) |-> Entity(c, FindOne(coll, [_id |-> id])[i])]

\* The collections the generic operations are called on.
CollectionArgs == {"failures", "predictions"}

\* The id argument of a generic call together with its collection.
ArgIn(c, id) == [kind |-> id.kind, val |-> id.val, coll |-> c]

\* get_document_by_id(db, collection, doc_id, model_class), with the class
\* of the collection: the entity, or None when nothing matches.
get_document_by_id(p) ==
    /\ pc[p] = "idle"
    /\ \E c \in CollectionArgs, doc_id \in AnyIdArgs, ok \in BOOLEAN :
          LET id == NormalizeId(doc_id)
              found == Fetch(c, db[c], id)
          IN IF ~ok
             THEN Done(p, RetRaise("get_document_by_id", "ConnectionError", ArgIn(c, id)))
             ELSE Done(p, Ret("get_document_by_id",
                              IF found = <<>> THEN "none" ELSE "entity", None,
                              ArgIn(c, id), found))
    /\ UNCHANGED <<db, indexes, now, nextId, okResolves>>

\* ------------------------------------------------------------ predictions
MaxVersions == 2
MaxPredictions == 3

ModelVersions == 1..MaxVersions
OptScores == {None, 1}

\* SensorPrediction(cluster_id=..., model_version=..., confidence_score=...,
\* prediction_time=datetime.now(), mlflow_run_id=..., model_name=...,
\* reading_id=...); cluster_id and model_name are payload.
SensorPrediction(id, rid, ver, conf, run, t) ==
    [_id |-> Oid(id), cluster_id |-> 1, model_version |-> ver,
     confidence_score |-> conf, prediction_time |-> t, mlflow_run_id |-> run,
     model_name |-> 1, reading_id |-> rid]

\* The reading id and model version a create_prediction call was given.
PredictionArg(rid, ver) == [kind |-> rid.kind, val |-> rid.val, model_version |-> ver]

\* valid says whether the payload passes the class's field validation; the
\* calls leave mlflow_run_id at its default (None).
create_prediction(p) ==
    /\ pc[p] = "idle"
    /\ nextId + Pending <= MaxDocs
    /\ Len(db["predictions"]) < MaxPredictions
    /\ \E reading_id \in AnyIdArgs, model_version \in ModelVersions,
          confidence_score \in OptScores, valid \in BOOLEAN, ok \in BOOLEAN :
          LET rid == NormalizeId(reading_id)
              e == SensorPrediction(nextId, rid, model_version, confidence_score,
                                    None, now)
              d == Dict("predictions", e)
              out == InsertOutcome("predictions", d, ok)
              a == PredictionArg(rid, model_version)
          IN IF ~(valid /\ PyObjectIdValidates(rid))
             THEN /\ db' = db
                  /\ nextId' = nextId
                  /\ Done(p, RetRaise("create_prediction", "ValidationError", a))
             ELSE /\ nextId' = nextId + 1
                  /\ create_document("predictions", d, ok)
                  /\ IF out = "id"
                     THEN Done(p, Ret("create_prediction", "id", nextId, a, <<e>>))
                     ELSE Done(p, RetRaise("create_prediction", out, a))
    /\ UNCHANGED <<indexes, now, okResolves>>

NextPrediction ==
    \/ \E p \in Procs : create_prediction(p)
    \/ \E p \in Procs : get_document_by_id(p)

SpecPrediction == Init /\ [][NextPrediction]_vars

\* IndexModel([("reading_id", ASCENDING), ("model_version", ASCENDING)], unique=True)
PredictionPairIndex ==
    IndexModel("predictions", <<"reading_id", "model_version">>, <<ASCENDING, ASCENDING>>, TRUE)

\* The positions of the predictions stored for a reading and a model version.
PredictionsOf(coll, rid, ver) ==
    {i \in DOMAIN coll : coll[i].reading_id = rid /\ coll[i].model_version = ver}

\* C11: once init_db has provisioned the indexes, the predictions collection
\* never holds two SensorPredictions with the same (reading_id, model_version);
\* a create_prediction whose store call goes through raises DuplicateKeyError
\* and adds nothing when the pair is already stored, and otherwise (a new
\* pair, such as another model_version for the same reading) appends one
\* document and returns its id.  create_prediction is one store call, so
\* concurrent calls are the interleavings of these steps.
C11_UniquePrediction ==
    [][(PredictionPairIndex \in indexes)
       => /\ \A i, j \in DOMAIN db'["predictions"] :
                (/\ db'["predictions"][i].reading_id = db'["predictions"][j].reading_id
                 /\ db'["predictions"][i].model_version = db'["predictions"][j].model_version)
                => i = j
          /\ (/\ ret'.op = "create_prediction"
              /\ ret'.tag \notin {"ValidationError", "ConnectionError"})
             => IF PredictionsOf(db["predictions"], Oid(ret'.arg.val),
                                 ret'.arg.model_version) # {}
                THEN ret'.tag = "DuplicateKeyError" /\ db' = db
                ELSE /\ ret'.tag = "id"
                     /\ Len(db'["predictions"]) = Len(db["predictions"]) + 1
                     /\ PredictionsOf(db'["predictions"], Oid(ret'.arg.val),
                                      ret'.arg.model_version)
                           = {Len(db'["predictions"])}]_vars

\* Two predictions of one reading under different model versions are stored,
\* and a further create_prediction for a stored pair was just refused.
C11_Witness ==
    /\ PredictionPairIndex \in indexes
    /\ ret.op = "create_prediction"
    /\ ret.tag = "DuplicateKeyError"
    /\ Len(db["predictions"]) = 2
    /\ db["predictions"][1].reading_id = db["predictions"][2].reading_id
    /\ db["predictions"][1].model_version # db["predictions"][2].model_version

ModelVersionDoc(id, ver, t, processed) ==
    [_id |-> Oid(id), version |-> ver, run_id |-> 1, created_at |-> t,
     is_processed |-> processed]

VersionIdArgs == IdForms(StoredIds("versions") \cup {0})

\* valid says whether version and run_id pass the class's field validation.
create_model_version(p) ==
    /\ pc[p] = "idle"
    /\ nextId + Pending <= MaxDocs
    /\ \E version \in ModelVersions, is_processed \in BOOLEAN,
          valid \in BOOLEAN, ok \in BOOLEAN :
          LET d == ModelVersionDoc(nextId, version, now, is_processed)
              out == InsertOutcome("versions", d, ok)
          IN IF ~valid
             THEN /\ db' = db
                  /\ nextId' = nextId
                  /\ Done(p, RetRaise("create_model_version", "ValidationError", NoneId))
             ELSE /\ nextId' = nextId + 1
                  /\ create_document("versions", d, ok)
                  /\ IF out = "id"
                     THEN Done(p, RetId("create_model_version", nextId, NoneId))
                     ELSE Done(p, RetRaise("create_model_version", out, NoneId))
    /\ UNCHANGED <<indexes, now, okResolves>>

\* A filter that selects the version only while it is unprocessed.
MarkFilterUnprocessed(vid) == [_id |-> vid, is_processed |-> FALSE]

\* {"_id": version_id}
MarkFilter(vid) == [_id |-> vid]

\* {"$set": {"is_processed": True}}
MarkSet == [is_processed |-> TRUE]

\* The outcome carries, in docs, the document the filter matched as it was
\* before the update.
mark_model_version_processed(p) ==
    /\ pc[p] = "idle"
    /\ \E version_id \in VersionIdArgs, ok \in BOOLEAN :
          LET vid == NormalizeId(version_id)
              matched == MatchedCount(db["versions"], MarkFilter(vid)) > 0
          IN IF ~ok
             THEN /\ db' = db
                  /\ Done(p, RetRaise("mark_model_version_processed", "ConnectionError", vid))
             ELSE /\ db' = [db EXCEPT !["versions"] = UpdateOne(@, MarkFilter(vid), MarkSet)]
                  /\ Done(p, Ret("mark_model_version_processed", "bool",
                                 IF matched THEN 1 ELSE 0, vid,
                                 FindOne(db["versions"], MarkFilter(vid))))
    /\ UNCHANGED <<indexes, now, nextId, okResolves>>

NextVersion ==
    \/ Tick
    \/ \E p \in Procs : create_model_version(p)
    \/ \E p \in Procs : mark_model_version_processed(p)

SpecVersion == Init /\ [][NextVersion]_vars

\* The positions of the model version (if any) with the given _id.
VersionWithId(coll, vid) == {i \in DOMAIN coll : coll[i]._id = vid}

\* C12: mark_model_version_processed on a ModelVersion that exists, processed
\* already or not, never returns False (it returns True whenever the store
\* call goes through) and leaves is_processed true and everything else as it
\* was; and no step of create_model_version or mark_model_version_processed
\* takes a stored is_processed from true back to false.
C12_MarkIdempotent ==
    [][/\ \A i \in DOMAIN db["versions"] :
             db["versions"][i].is_processed
             => /\ i \in DOMAIN db'["versions"]
                /\ db'["versions"][i].is_processed
       /\ (/\ ret'.op = "mark_model_version_processed"
           /\ VersionWithId(db["versions"], ret'.arg) # {})
          => /\ ret'.tag \in {"bool", "ConnectionError"}
             /\ ret'.tag = "bool"
                => /\ ret'.val = 1
                   /\ \E i \in VersionWithId(db["versions"], ret'.arg) :
                         db' = [db EXCEPT !["versions"][i].is_processed = TRUE]]_vars

\* mark_model_version_processed has returned True for a version that was
\* processed already, while an unprocessed version is stored as well.
C12_Witness ==
    /\ ret.op = "mark_model_version_processed"
    /\ ret.tag = "bool"
    /\ ret.val = 1
    /\ ret.docs[1].is_processed
    /\ \E i \in DOMAIN db["versions"] : ~db["versions"][i].is_processed

\* C13: a create_cluster_model(is_active=True) call that raises a validation
\* error leaves as many Clusters active as there were when the call began.
C13_ValidationBeforeStore ==
    (/\ ret.op = "create_cluster_model"
     /\ ret.tag = "ValidationError"
     /\ ret.arg.val # None)
    => Cardinality(ActiveClusters) = ret.arg.val

\* ------------------------------------------------- generic document access
\* The update_data dictionaries the callers pass.
UpdateDataArgs == {[is_active |-> FALSE], [start_time |-> 0]}

\* The same update issued with upsert=True.
DocUpsert(coll, id, data) ==
    IF Matching(coll, [_id |-> id]) = {}
    THEN Append(coll, [_id |-> id] @@ data)
    ELSE UpdateOne(coll, [_id |-> id], data)

\* db[collection].update_one({"_id": doc_id}, {"$set": update_data})
DocUpdate(coll, id, data) == UpdateOne(coll, [_id |-> id], data)

update_document(p) ==
    /\ pc[p] = "idle"
    /\ \E c \in CollectionArgs, doc_id \in AnyIdArgs, update_data \in UpdateDataArgs,
          ok \in BOOLEAN :
          LET id == NormalizeId(doc_id)
              matched == MatchedCount(db[c], [_id |-> id]) > 0
          IN IF ~ok
             THEN /\ db' = db
                  /\ Done(p, RetRaise("update_document", "ConnectionError", ArgIn(c, id)))
             ELSE /\ db' = [db EXCEPT ![c] = DocUpdate(@, id, update_data)]
                  /\ Done(p, Ret("update_document", "bool", IF matched THEN 1 ELSE 0,
                                 ArgIn(c, id), <<update_data>>))
    /\ UNCHANGED <<indexes, now, nextId, okResolves>>

\* A delete that takes the first document of the collection, whatever its id.
DocDeleteFirst(coll, id) == DeleteOne(coll, <<>>)

\* db[collection].delete_one({"_id": doc_id})
DocDelete(coll, id) == DeleteOne(coll, [_id |-> id])

\* result.deleted_count > 0
delete_document(p) ==
    /\ pc[p] = "idle"
    /\ \E c \in CollectionArgs, doc_id \in AnyIdArgs, ok \in BOOLEAN :
          LET id == NormalizeId(doc_id)
              deleted == Len(db[c]) - Len(DocDelete(db[c], id))
          IN IF ~ok
             THEN /\ db' = db
                  /\ Done(p, RetRaise("delete_document", "ConnectionError", ArgIn(c, id)))
             ELSE /\ db' = [db EXCEPT ![c] = DocDelete(@, id)]
                  /\ Done(p, RetBool("delete_document", deleted > 0, ArgIn(c, id)))
    /\ UNCHANGED <<indexes, now, nextId, okResolves>>

\* get_machine_failures: find({"machine_id": machine_id}).sort("start_time",
\* DESCENDING), each document turned into a Failure.
get_machine_failures(p) ==
    /\ pc[p] = "idle"
    /\ \E machine_id \in AnyIdArgs, ok \in BOOLEAN :
          LET mid == NormalizeId(machine_id)
          IN IF ok
             THEN \E s \in SortedDesc({d \in Range(db["failures"]) :
                                          Matches(d, [machine_id |-> mid])}, "start_time") :
                     Done(p, Ret("get_machine_failures", "list", Len(s), mid,
                                 [i \in DOMAIN s |-> Entity("failures", s[i])]))
             ELSE Done(p, RetRaise("get_machine_failures", "ConnectionError", mid))
    /\ UNCHANGED <<db, indexes, now, nextId, okResolves>>

NextStore ==
    \/ \E p \in Procs : create_failure(p)
    \/ \E p \in Procs : update_document(p)
    \/ \E p \in Procs : delete_document(p)
    \/ \E p \in Procs : get_document_by_id(p)
    \/ \E p \in Procs : get_machine_failures(p)

SpecStore == Init /\ [][NextStore]_vars

\* The operations of this specification that take a caller-supplied id.
IdOps == {"create_failure", "update_document", "delete_document",
          "get_document_by_id", "get_machine_failures"}

\* C14 as stated: every operation that is handed a malformed id string
\* rejects it with an invalid-identifier error.
C14_MalformedRejected ==
    (ret.op \in IdOps /\ ret.arg.kind = "str") => ret.tag = "ValidationError"

\* C14 amended: only the operations that build an entity around the id
\* (create_failure here) reject a malformed id string, with a validation
\* error and before any store call; update_document, delete_document,
\* get_document_by_id and the lookups hand the string to the store as it is,
\* where it matches nothing: they return False, None or an empty list and
\* leave the store unchanged.
C14_MalformedPassedOn ==
    [][(ret'.op \in IdOps /\ ret'.arg.kind = "str")
       => /\ db' = db
          /\ IF ret'.op = "create_failure"
             THEN ret'.tag = "ValidationError"
             ELSE /\ ret'.tag \in {"bool", "none", "list", "ConnectionError"}
                  /\ ret'.tag = "bool" => ret'.val = 0
                  /\ ret'.tag = "list" => ret'.docs = <<>>]_vars

\* update_document has returned False for a malformed id string while the
\* collection holds documents.
C14_Witness ==
    /\ ret.op = "update_document"
    /\ ret.arg.kind = "str"
    /\ ret.tag = "bool"
    /\ ret.val = 0
    /\ db[ret.arg.coll] # <<>>

\* The positions of the document (if any) that a generic call's collection
\* and id designate.
DocWithId(a) ==
    {i \in DOMAIN db[a.coll] : db[a.coll][i]._id = [kind |-> a.kind, val |-> a.val]}

\* C15: update_document does not return True unless a document with the id
\* is stored in the named collection, and returns True whenever one is and
\* the store call goes through; it merges update_data into that document
\* alone, never adds or removes a document, and without a match changes
\* nothing.
C15_UpdateDocument ==
    [][ret'.op = "update_document"
       => /\ ret'.tag \in {"bool", "ConnectionError"}
          /\ ret'.tag = "ConnectionError" => db' = db
          /\ ret'.tag = "bool"
             => /\ (ret'.val = 1) <=> (DocWithId(ret'.arg) # {})
                /\ \A c \in Collections \ {ret'.arg.coll} : db'[c] = db[c]
                /\ Len(db'[ret'.arg.coll]) = Len(db[ret'.arg.coll])
                /\ \A i \in DOMAIN db[ret'.arg.coll] :
                      db'[ret'.arg.coll][i] =
                         IF i \in DocWithId(ret'.arg)
                         THEN ret'.docs[1] @@ db[ret'.arg.coll][i]
                         ELSE db[ret'.arg.coll][i]]_vars

\* update_document has returned False for a well-formed id no document of
\* the collection carries, while the collection holds documents.
C15_Witness ==
    /\ ret.op = "update_document"
    /\ ret.tag = "bool"
    /\ ret.val = 0
    /\ ret.arg.kind = "oid"
    /\ DocWithId(ret.arg) = {}
    /\ db[ret.arg.coll] # <<>>

\* C16: delete_document does not return True unless a document with the id
\* is stored in the named collection, and returns True whenever one is and
\* the store call goes through; it removes that document and no other, so
\* that the id matches nothing afterwards, and when nothing matches (as for
\* a second delete of the same id) it returns False and changes nothing.
C16_DeleteDocument ==
    [][ret'.op = "delete_document"
       => /\ ret'.tag \in {"bool", "ConnectionError"}
          /\ ret'.tag = "ConnectionError" => db' = db
          /\ ret'.tag = "bool"
             => /\ (ret'.val = 1) <=> (DocWithId(ret'.arg) # {})
                /\ \A c \in Collections \ {ret'.arg.coll} : db'[c] = db[c]
                /\ IF DocWithId(ret'.arg) = {}
                   THEN db' = db
                   ELSE /\ \E i \in DocWithId(ret'.arg) :
                              db'[ret'.arg.coll] =
                                 [j \in 1..(Len(db[ret'.arg.coll]) - 1) |->
                                     IF j < i THEN db[ret'.arg.coll][j]
                                     ELSE db[ret'.arg.coll][j + 1]]
                        /\ \A j \in DOMAIN db'[ret'.arg.coll] :
                              db'[ret'.arg.coll][j]._id # Oid(ret'.arg.val)]_vars

\* delete_document has returned True and the collection still holds the
\* other document.
C16_Witness ==
    /\ ret.op = "delete_document"
    /\ ret.tag = "bool"
    /\ ret.val = 1
    /\ DocWithId(ret.arg) = {}
    /\ db[ret.arg.coll] # <<>>

\* Config.collection of the entity class each creating operation constructs.
CollectionOf(op) ==
    CASE op = "create_machine" -> "machines"
      [] op = "create_failure" -> "failures"
      [] op = "create_prediction" -> "predictions"
      [] op = "create_model_version" -> "versions"

\* C17: a create_document that returns an id has appended exactly one
\* document, carrying that id, to the collection of the entity's class, and
\* has left every document stored before, in every collection, as it was.
C17_CreateFrame ==
    [][(ret'.op \in {"create_failure", "create_prediction", "create_model_version"}
        /\ ret'.tag = "id")
       => /\ Len(db'[CollectionOf(ret'.op)]) = Len(db[CollectionOf(ret'.op)]) + 1
          /\ SubSeq(db'[CollectionOf(ret'.op)], 1, Len(db[CollectionOf(ret'.op)]))
                = db[CollectionOf(ret'.op)]
          /\ db'[CollectionOf(ret'.op)][Len(db'[CollectionOf(ret'.op)])]._id = Oid(ret'.val)
          /\ \A c \in Collections \ {CollectionOf(ret'.op)} : db'[c] = db[c]]_vars

\* create_failure has just returned the id of the second stored Failure.
C17_Witness ==
    /\ ret.op = "create_failure"
    /\ ret.tag = "id"
    /\ Len(db["failures"]) = 2
    /\ db["failures"][2]._id = Oid(ret.val)

\* ----------------------------------------------------------------- queries
MaxLimit == 2

\* The query, sort_by, limit and skip arguments of get_documents; the empty
\* tuple stands for an argument left at None.
QueryArgs == {<<>>, [is_processed |-> FALSE]}
SortArgs == {<<>>, <<"version", DESCENDING>>}
LimitArgs == 0..MaxLimit
SkipArgs == 0..MaxLimit

\* The k-th smallest of a set of positions.
Nth(S, k) == CHOOSE i \in S : Cardinality({j \in S : j <= i}) = k

\* find(query): the matching documents in natural order.
Find(coll, q) ==
    [k \in 1..Cardinality(Matching(coll, q)) |-> coll[Nth(Matching(coll, q), k)]]

\* The value a document is sorted by (a missing field sorts as null).
SortKey(d, key) == IF key \in DOMAIN d THEN d[key] ELSE None

\* cursor.sort([(key, direction)]): every arrangement of the documents whose
\* keys run in the direction given (the store chooses among equal keys).
SortedBy(seq, key, dir) ==
    {s \in [DOMAIN seq -> Range(seq)] :
        /\ \A i, j \in DOMAIN seq : i # j => s[i]._id # s[j]._id
        /\ \A i, j \in DOMAIN seq :
              i < j => dir * SortKey(s[i], key) <= dir * SortKey(s[j], key)}

\* A cursor that cuts to limit documents before it drops the first skip.
WindowLimitFirst(s, skip, limit) ==
    LET a == IF limit # 0 /\ limit < Len(s) THEN SubSeq(s, 1, limit) ELSE s
    IN IF skip # 0 THEN SubSeq(a, skip + 1, Len(a)) ELSE a

\* if skip: cursor.skip(skip); if limit: cursor.limit(limit).  The cursor
\* drops the first skip documents, then keeps at most limit of the rest.
Window(s, skip, limit) ==
    LET a == IF skip # 0 THEN SubSeq(s, skip + 1, Len(s)) ELSE s
    IN IF limit # 0 /\ limit < Len(a) THEN SubSeq(a, 1, limit) ELSE a

\* The collection the callers query, with its class ModelVersion.
QueryCollection == "versions"

\* The arguments of a get_documents call.
QueryArg(c, query, sort_by, limit, skip) ==
    [kind |-> "query", val |-> None, coll |-> c, query |-> query,
     sort_by |-> sort_by, limit |-> limit, skip |-> skip]

\* get_documents(db, collection, model_class, query, sort_by, limit, skip),
\* with the class of the collection.
get_documents(p) ==
    /\ pc[p] = "idle"
    /\ \E c \in {QueryCollection}, query \in QueryArgs, sort_by \in SortArgs,
          limit \in LimitArgs, skip \in SkipArgs, ok \in BOOLEAN :
          IF ok
          THEN \E s \in (IF sort_by # <<>>
                         THEN SortedBy(Find(db[c], query), sort_by[1], sort_by[2])
                         ELSE {Find(db[c], query)}) :
                  Done(p, Ret("get_documents", "list", Len(Window(s, skip, limit)),
                              QueryArg(c, query, sort_by, limit, skip),
                              [i \in DOMAIN Window(s, skip, limit) |->
                                  Entity(c, Window(s, skip, limit)[i])]))
          ELSE Done(p, RetRaise("get_documents", "ConnectionError",
                                QueryArg(c, query, sort_by, limit, skip)))
    /\ UNCHANGED <<db, indexes, now, nextId, okResolves>>

NextQuery ==
    \/ \E p \in Procs : create_model_version(p)
    \/ \E p \in Procs : get_documents(p)

SpecQuery == Init /\ [][NextQuery]_vars

\* The position of a stored document in its collection.
Pos(coll, d) == CHOOSE i \in DOMAIN coll : coll[i]._id = d._id

\* C20: the list get_documents returns is cut out of the full result, which
\* holds each document matching the filter once, in the sort order when
\* sort_by is given and in natural order otherwise: the first skip documents
\* of the full result are dropped and at most limit of the rest are kept,
\* all of the rest when limit = 0, and nothing is dropped when skip = 0.
C20_SkipThenLimit ==
    [][(ret'.op = "get_documents" /\ ret'.tag = "list")
       => LET a == ret'.arg
              M == {d \in Range(db[a.coll]) : Matches(d, a.query)}
              n == Cardinality(M)
              rest == IF n > a.skip THEN n - a.skip ELSE 0
              kept == IF a.limit = 0 \/ a.limit > rest THEN rest ELSE a.limit
          IN /\ db' = db
             /\ Len(ret'.docs) = kept
             /\ \E full \in [1..n -> M] :
                   /\ \A i, j \in 1..n : i # j => full[i] # full[j]
                   /\ \A i, j \in 1..n :
                         i < j => IF a.sort_by = <<>>
                                  THEN Pos(db[a.coll], full[i]) < Pos(db[a.coll], full[j])
                                  ELSE a.sort_by[2] * SortKey(full[i], a.sort_by[1])
                                          <= a.sort_by[2] * SortKey(full[j], a.sort_by[1])
                   /\ \A k \in 1..kept :
                         ret'.docs[k] = Entity(a.coll, full[a.skip + k])]_vars

\* get_documents, sorting three matching documents and asked to skip one
\* and keep one, has returned one document.
C20_Witness ==
    /\ ret.op = "get_documents"
    /\ ret.tag = "list"
    /\ ret.arg.sort_by # <<>>
    /\ ret.arg.skip = 1
    /\ ret.arg.limit = 1
    /\ Cardinality({d \in Range(db[ret.arg.coll]) : Matches(d, ret.arg.query)}) = 3
    /\ Len(ret.docs) = 1

\* --------------------------------------------------- readings in a range
\* A range that leaves its two bounds out ($gt, $lt).
InTimerangeOpen(d, start_time, end_time) ==
    d.timestamp > start_time /\ d.timestamp < end_time

\* "timestamp": {"$gte": start_time, "$lte": end_time}
InTimerange(d, start_time, end_time) ==
    d.timestamp >= start_time /\ d.timestamp <= end_time

\* The arguments of a get_readings_in_timerange call, the id as converted.
TimerangeArg(mid, start_time, end_time) ==
    [kind |-> mid.kind, val |-> mid.val,
     start_time |-> start_time, end_time |-> end_time]

\* get_readings_in_timerange(db, machine_id, start_time, end_time)
get_readings_in_timerange(p) ==
    /\ pc[p] = "idle"
    /\ \E machine_id \in MachineIdArgs, start_time \in Times, end_time \in Times,
          ok \in BOOLEAN :
          LET mid == NormalizeId(machine_id)
          IN IF ok
             THEN \E s \in SortedDesc({d \in Range(db["readings"]) :
                                          /\ Matches(d, [machine_id |-> mid])
                                          /\ InTimerange(d, start_time, end_time)},
                                      "timestamp") :
                     Done(p, Ret("get_readings_in_timerange", "list", Len(s),
                                 TimerangeArg(mid, start_time, end_time),
                                 [i \in DOMAIN s |-> Entity("readings", s[i])]))
             ELSE Done(p, RetRaise("get_readings_in_timerange", "ConnectionError",
                                   TimerangeArg(mid, start_time, end_time)))
    /\ UNCHANGED <<db, indexes, now, nextId, okResolves>>

\* The writers run one at a time; the lookup runs at any moment, between
\* the two store calls of a create_sensor_reading included.
NextTimerange ==
    \/ \E p \in Procs : AllIdle /\ create_machine(p)
    \/ \E p \in Procs : AllIdle /\ create_sensor_reading(p)
    \/ \E p \in Procs : sr_touch(p)
    \/ \E p \in Procs : get_readings_in_timerange(p)

SpecTimerange == Init /\ [][NextTimerange]_vars

\* C19: the list get_readings_in_timerange returns holds, once each, the
\* stored readings of the machine asked for whose timestamp t satisfies
\* start_time <= t <= end_time, both bounds included, and no other reading;
\* it runs from the newest timestamp to the oldest, and the store is left
\* as it was.
C19_Timerange ==
    [][(ret'.op = "get_readings_in_timerange" /\ ret'.tag = "list")
       => LET a == ret'.arg
              l == ret'.docs
              M == {d \in Range(db["readings"]) :
                       /\ d.machine_id = [kind |-> a.kind, val |-> a.val]
                       /\ a.start_time <= d.timestamp
                       /\ d.timestamp <= a.end_time}
          IN /\ db' = db
             /\ Len(l) = Cardinality(M)
             /\ {l[i] : i \in DOMAIN l} = {Entity("readings", d) : d \in M}
             /\ \A i, j \in DOMAIN l : i < j => l[i].timestamp >= l[j].timestamp]_vars

\* get_readings_in_timerange, asked for the range whose two bounds are the
\* timestamp of the machine's one reading, has returned that reading and left
\* out a reading of another machine taken at the same time.
C19_Witness ==
    /\ ret.op = "get_readings_in_timerange"
    /\ ret.tag = "list"
    /\ Len(ret.docs) = 1
    /\ ret.docs[1].timestamp = ret.arg.start_time
    /\ ret.docs[1].timestamp = ret.arg.end_time
    /\ \E d \in Range(db["readings"]) :
          /\ d.machine_id.val # ret.arg.val
          /\ d.timestamp = ret.arg.start_time

\* ------------------------------------------------ one machine per name
\* IndexModel([("machine_id", ASCENDING)], unique=True)
MachineNameIndex == IndexModel("machines", <<"machine_id">>, <<ASCENDING>>, TRUE)

\* The positions of the machines stored under an external machine_id.
MachinesNamed(coll, name) == {i \in DOMAIN coll : coll[i].machine_id = name}

\* C21: once init_db has provisioned the indexes, the machines collection
\* never holds two Machines with the same external machine_id; a
\* create_machine whose store call goes through raises DuplicateKeyError and
\* adds nothing when the machine_id is already stored, and otherwise appends
\* one Machine and returns its id.  create_machine is one store call with no
\* read before it, so concurrent calls are the interleavings of these steps.
C21_UniqueMachine ==
    [][(MachineNameIndex \in indexes)
       => /\ \A i, j \in DOMAIN db'["machines"] :
                db'["machines"][i].machine_id = db'["machines"][j].machine_id => i = j
          /\ (ret'.op = "create_machine" /\ ret'.tag # "ConnectionError")
             => IF MachinesNamed(db["machines"], ret'.arg.val) # {}
                THEN ret'.tag = "DuplicateKeyError" /\ db' = db
                ELSE /\ ret'.tag = "id"
                     /\ Len(db'["machines"]) = Len(db["machines"]) + 1
                     /\ MachinesNamed(db'["machines"], ret'.arg.val)
                           = {Len(db'["machines"])}]_vars

\* With the indexes provisioned and one Machine stored, a create_machine
\* with that machine's external machine_id was just refused.
C21_Witness ==
    /\ MachineNameIndex \in indexes
    /\ ret.op = "create_machine"
    /\ ret.tag = "DuplicateKeyError"
    /\ MachinesNamed(db["machines"], ret.arg.val) # {}
    /\ Len(db["machines"]) = 1

\* ------------------------------------------------------- store failures
\* The operations that issue more than one store call, and create_machine,
\* with every store call free to fail.
NextFaults ==
    \/ \E p \in Procs : create_machine(p)
    \/ \E p \in Procs : create_sensor_reading(p)
    \/ \E p \in Procs : sr_touch(p)
    \/ \E p \in Procs : create_cluster_model(p)
    \/ \E p \in Procs : cc_insert(p)

SpecFaults == Init /\ [][NextFaults]_vars

\* The errors a store call raises.
StoreErrors == {"ConnectionError", "DuplicateKeyError"}

\* C22: a step that ends in a store error changes no collection, ends the
\* call it belongs to (its caller is idle again, with the error as the
\* outcome) and starts no further store call; a call moves on to its second
\* store call only from a first store call that went through, and its
\* second store call, failed or not, is its last: no store call is issued
\* twice.
C22_FailuresSurface ==
    [][/\ (ret'.tag \in StoreErrors)
          => /\ db' = db
             /\ \A p \in Procs : pc'[p] # pc[p] => pc'[p] = "idle"
             /\ \E p \in Procs : pc'[p] = "idle" /\ local'[p] = NoFrame
       /\ (ret'.tag = "step")
          => \E p \in Procs :
                /\ pc[p] = "idle"
                /\ pc'[p] \in {"sr_touch", "cc_insert"}
                /\ db' # db \/ pc'[p] = "cc_insert"
       /\ \A p \in Procs :
             (pc[p] # "idle" /\ (pc'[p] # pc[p] \/ local'[p] # local[p]))
             => pc'[p] = "idle"
       /\ \A p \in Procs :
             (pc[p] = "idle" /\ pc'[p] = "sr_touch")
             => Len(db'["readings"]) = Len(db["readings"]) + 1]_vars

\* The insert of a create_sensor_reading for a stored Machine has failed:
\* the error is the outcome, no caller is left in the touch step and the
\* machine's last_seen is as it was created.
C22_Witness ==
    /\ ret.op = "create_sensor_reading"
    /\ ret.tag = "ConnectionError"
    /\ ret.val = None
    /\ \A p \in Procs : pc[p] = "idle"
    /\ db["readings"] = <<>>
    /\ \E i \in MachineWithId(db["machines"], ret.arg) :
          db["machines"][i].last_seen = db["machines"][i].first_seen

\* ---------------------------------------------------- index provisioning
\* The collections in the order init_db provisions them.
ProvisionOrder ==
    <<"machines", "failures", "readings", "predictions", "clusters", "drift", "versions">>

\* The IndexModels init_db hands to create_indexes for a collection.
IndexesOf(c) == {ix \in InitDbIndexes : ix.coll = c}

\* Two documents of the collection share their key under the index.
HoldsDuplicates(ix) ==
    \E i, j \in DOMAIN db[ix.coll] :
        /\ i # j
        /\ IndexKey(db[ix.coll][i], ix.keys) = IndexKey(db[ix.coll][j], ix.keys)

\* A store that refuses to create an index that already exists.
CreateIndexesOutcomeOnce(c, ok) ==
    IF ~ok THEN "ConnectionError"
    ELSE IF IndexesOf(c) \cap indexes # {} THEN "OperationFailure"
    ELSE IF \E ix \in IndexesOf(c) : ix.unique /\ HoldsDuplicates(ix)
         THEN "DuplicateKeyError"
    ELSE "created"

\* db[c].create_indexes([...]): an index that exists with the same
\* definition is left alone; one that exists on the same keys with other
\* options is a conflict; a new unique index cannot be built over documents
\* that share a key.
CreateIndexesOutcome(c, ok) ==
    IF ~ok THEN "ConnectionError"
    ELSE IF \E ix \in IndexesOf(c), e \in indexes :
               e.coll = c /\ e.keys = ix.keys /\ e # ix
         THEN "OperationFailure"
    ELSE IF \E ix \in IndexesOf(c) \ indexes : ix.unique /\ HoldsDuplicates(ix)
         THEN "DuplicateKeyError"
    ELSE "created"

\* The argument of an init_db step: the position of the collection it
\* provisions, and whether the database held every index when init_db began.
ProvisionArg(k, held) == [kind |-> "coll", val |-> k, held |-> held]

\* One create_indexes call of init_db, for the k-th collection.
ProvisionStep(p, k, held, ok) ==
    LET c == ProvisionOrder[k]
        out == CreateIndexesOutcome(c, ok)
    IN IF out # "created"
       THEN /\ indexes' = indexes
            /\ Done(p, RetRaise("init_db", out, ProvisionArg(k, held)))
       ELSE /\ indexes' = indexes \cup IndexesOf(c)
            /\ IF k = Len(ProvisionOrder)
               THEN Done(p, Ret("init_db", "client", None, ProvisionArg(k, held), <<>>))
               ELSE /\ pc' = [pc EXCEPT ![p] = "init_db"]
                    /\ local' = [local EXCEPT ![p] =
                          [op |-> "init_db", k |-> k + 1, held |-> held]]
                    /\ ret' = RetStep("init_db", ProvisionArg(k, held))

\* init_db(connection_string, db_name) up to and including the
\* create_indexes call on the machines collection.
init_db(p) ==
    /\ pc[p] = "idle"
    /\ \E ok \in BOOLEAN : ProvisionStep(p, 1, InitDbIndexes \subseteq indexes, ok)
    /\ UNCHANGED <<db, now, nextId, okResolves>>

\* The create_indexes call on the next collection; after the last one the
\* client is returned.
id_create_indexes(p) ==
    /\ pc[p] = "init_db"
    /\ \E ok \in BOOLEAN : ProvisionStep(p, local[p].k, local[p].held, ok)
    /\ UNCHANGED <<db, now, nextId, okResolves>>

NextProvision ==
    \/ \E p \in Procs : create_machine(p)
    \/ \E p \in Procs : init_db(p)
    \/ \E p \in Procs : id_create_indexes(p)

SpecProvision == Init /\ [][NextProvision]_vars

\* C23: a create_indexes call of init_db on a collection that already holds
\* the index definitions init_db gives it raises no index error and leaves
\* the set of indexes as it is; so an init_db begun on a database that holds
\* every definition fails at no step (a lost connection aside), changes no
\* index and no document, and returns the client.
C23_ProvisionIdempotent ==
    [][(ret'.op = "init_db")
       => /\ db' = db
          /\ (IndexesOf(ProvisionOrder[ret'.arg.val]) \subseteq indexes)
             => /\ indexes' = indexes
                /\ ret'.tag \in {"step", "client", "ConnectionError"}
          /\ ret'.arg.held
             => /\ indexes' = indexes
                /\ indexes = InitDbIndexes
                /\ ret'.tag \in {"step", "client", "ConnectionError"}
          /\ (ret'.tag = "client") => indexes' = InitDbIndexes]_vars

\* An init_db begun on a database that held every index definition, and two
\* Machines, has returned the client.
C23_Witness ==
    /\ ret.op = "init_db"
    /\ ret.tag = "client"
    /\ ret.arg.held
    /\ indexes = InitDbIndexes
    /\ Len(db["machines"]) = 2

\* ------------------------------------------------------ failure lifecycle
\* C24: in every state reached by create_failure and resolve_failure calls,
\* in any interleaving, each stored Failure is active exactly when its
\* document carries no end_time (and an end_time that is stored is a time,
\* never null).
C24_ActiveIffOpen ==
    \A d \in Range(db["failures"]) :
        /\ d.is_active <=> "end_time" \notin DOMAIN d
        /\ "end_time" \in DOMAIN d => d.end_time \in Times

\* One Failure is resolved and carries its end_time, another is still open,
\* and a resolve_failure has just returned True.
C24_Witness ==
    /\ ret.op = "resolve_failure"
    /\ ret.tag = "bool"
    /\ ret.val = 1
    /\ \E d \in Range(db["failures"]) : ~d.is_active /\ "end_time" \in DOMAIN d
    /\ \E d \in Range(db["failures"]) : d.is_active /\ "end_time" \notin DOMAIN d

\* ------------------------------------------------ failed cluster insert
\* C25: when a create_cluster_model(is_active=True) has failed at its insert
\* (DuplicateKeyError or a lost connection), with no other writer at work,
\* as many Clusters are active as when the call began: the Cluster that was
\* active before the call is still active.
C25_FailedInsertKeepsActive ==
    (/\ ret.op = "create_cluster_model"
     /\ ret.tag \in StoreErrors
     /\ ret.arg.val # None)
    => Cardinality(ActiveClusters) = ret.arg.val

\* ------------------------------------------- registering without activation
\* C26: a create_cluster_model(is_active=False), whatever its outcome, takes
\* one step that leaves every stored Cluster as it was, its is_active flag
\* included: the active Clusters after the call are those before it, and a
\* call that returns an id has appended one Cluster that is not active.
C26_InactiveCreateFrame ==
    [][(ret'.op = "create_cluster_model" /\ ret'.arg.kind = "pre" /\ ret'.arg.val = None)
       => /\ \A i \in DOMAIN db["clusters"] :
                /\ i \in DOMAIN db'["clusters"]
                /\ db'["clusters"][i] = db["clusters"][i]
          /\ ActiveClusters' = ActiveClusters
          /\ \A p \in Procs : pc'[p] = pc[p]
          /\ IF ret'.tag = "id"
             THEN /\ Len(db'["clusters"]) = Len(db["clusters"]) + 1
                  /\ db'["clusters"][Len(db'["clusters"])]._id = Oid(ret'.val)
                  /\ ~db'["clusters"][Len(db'["clusters"])].is_active
             ELSE db' = db]_vars

\* A create_cluster_model(is_active=False) has returned an id while another
\* Cluster is, and stays, active.
C26_Witness ==
    /\ ret.op = "create_cluster_model"
    /\ ret.tag = "id"
    /\ ret.arg.kind = "pre"
    /\ ret.arg.val = None
    /\ Cardinality(ActiveClusters) = 1
    /\ Len(db["clusters"]) = 2

\* ------------------------------------------------- unset optional fields
\* The operations that store an entity with an optional attribute.
NextOptional ==
    \/ \E p \in Procs : create_failure(p)
    \/ \E p \in Procs : create_sensor_reading(p)
    \/ \E p \in Procs : sr_touch(p)
    \/ \E p \in Procs : create_prediction(p)

SpecOptional == Init /\ [][NextOptional]_vars

\* The collections whose class has an optional attribute.
OptionalCollections == {"failures", "readings", "predictions"}

\* C27: no document stored by create_document carries an optional attribute
\* of its class with the value None: the attribute is either absent or set.
\* So a Failure just opened by create_failure is stored without an end_time
\* field, and a SensorReading created without a failure is stored without a
\* failure_id field.
C27_UnsetOmitted ==
    [][/\ \A c \in OptionalCollections : \A d \in Range(db'[c]) :
             \A f \in OptionalFields(c) : f \in DOMAIN d => d[f] # NoneOf(f)
       /\ (ret'.op = "create_failure" /\ ret'.tag = "id")
          => /\ Len(db'["failures"]) = Len(db["failures"]) + 1
             /\ db'["failures"][Len(db'["failures"])]._id = Oid(ret'.val)
             /\ "end_time" \notin DOMAIN db'["failures"][Len(db'["failures"])]
       /\ \A p \in Procs :
             (pc[p] = "idle" /\ pc'[p] = "sr_touch")
             => /\ Len(db'["readings"]) = Len(db["readings"]) + 1
                /\ "failure_id" \in DOMAIN db'["readings"][Len(db'["readings"])]
                      => db'["readings"][Len(db'["readings"])].failure_id.kind = "oid"]_vars

\* A Failure without an end_time field and a SensorReading without a
\* failure_id field are stored, next to a SensorReading that has one.
C27_Witness ==
    /\ \E d \in Range(db["failures"]) : "end_time" \notin DOMAIN d
    /\ \E d \in Range(db["readings"]) : "failure_id" \notin DOMAIN d
    /\ \E d \in Range(db["readings"]) : "failure_id" \in DOMAIN d

\* ------------------------------------------------------ machine lifecycle
\* C28: over create_machine, update_machine_last_seen and
\* create_sensor_reading calls in any interleaving (the clock never running
\* backwards), no step removes a Machine or changes its _id, machine_id or
\* first_seen; every stored Machine has first_seen <= last_seen; and an
\* update_machine_last_seen whose store call goes through returns True
\* exactly when its id matches a Machine, leaving the machines collection
\* as it was when it matches none.
C28_MachineLifecycle ==
    [][/\ \A i \in DOMAIN db["machines"] :
             /\ i \in DOMAIN db'["machines"]
             /\ db'["machines"][i]._id = db["machines"][i]._id
             /\ db'["machines"][i].machine_id = db["machines"][i].machine_id
             /\ db'["machines"][i].first_seen = db["machines"][i].first_seen
       /\ \A d \in Range(db'["machines"]) :
             /\ DOMAIN d = {"_id", "machine_id", "first_seen", "last_seen"}
             /\ d.first_seen <= d.last_seen
       /\ (ret'.op = "update_machine_last_seen" /\ ret'.tag = "bool")
          => IF MachineWithId(db["machines"], ret'.arg) = {}
             THEN ret'.val = 0 /\ db' = db
             ELSE /\ ret'.val = 1
                  /\ \E i \in MachineWithId(db["machines"], ret'.arg) :
                        /\ OnlyLastSeenChanged(i)
                        /\ db'["machines"][i].last_seen = now]_vars

\* update_machine_last_seen has returned False for an id that matches no
\* Machine, while a Machine whose last_seen has moved past its first_seen is
\* stored.
C28_Witness ==
    /\ ret.op = "update_machine_last_seen"
    /\ ret.tag = "bool"
    /\ ret.val = 0
    /\ MachineWithId(db["machines"], ret.arg) = {}
    /\ \E d \in Range(db["machines"]) : d.first_seen < d.last_seen

\* ------------------------------------------------------------- lookups
\* A lookup that also records that the machine was seen.
get_machine_readings_touching(p) ==
    /\ pc[p] = "idle"
    /\ \E machine_id \in AnyIdArgs, ok \in BOOLEAN :
          LET mid == NormalizeId(machine_id)
          IN IF ok
             THEN /\ db' = [db EXCEPT !["machines"] = TouchUpsert(@, mid, now)]
                  /\ \E s \in SortedDesc({d \in Range(db["readings"]) :
                                             Matches(d, [machine_id |-> mid])},
                                         "timestamp") :
                        Done(p, Ret("get_machine_readings", "list", Len(s), mid,
                                    [i \in DOMAIN s |-> Entity("readings", s[i])]))
             ELSE /\ db' = db
                  /\ Done(p, RetRaise("get_machine_readings", "ConnectionError", mid))
    /\ UNCHANGED <<indexes, now, nextId, okResolves>>

\* get_machine_readings(db, machine_id)
get_machine_readings(p) ==
    /\ pc[p] = "idle"
    /\ \E machine_id \in AnyIdArgs, ok \in BOOLEAN :
          LET mid == NormalizeId(machine_id)
          IN IF ok
             THEN /\ db' = db
                  /\ \E s \in SortedDesc({d \in Range(db["readings"]) :
                                             Matches(d, [machine_id |-> mid])},
                                         "timestamp") :
                        Done(p, Ret("get_machine_readings", "list", Len(s), mid,
                                    [i \in DOMAIN s |-> Entity("readings", s[i])]))
             ELSE /\ db' = db
                  /\ Done(p, RetRaise("get_machine_readings", "ConnectionError", mid))
    /\ UNCHANGED <<indexes, now, nextId, okResolves>>

\* get_failure_readings(db, failure_id)
get_failure_readings(p) ==
    /\ pc[p] = "idle"
    /\ \E failure_id \in AnyIdArgs, ok \in BOOLEAN :
          LET fid == NormalizeId(failure_id)
          IN IF ok
             THEN \E s \in SortedDesc({d \in Range(db["readings"]) :
                                          Matches(d, [failure_id |-> fid])},
                                      "timestamp") :
                     Done(p, Ret("get_failure_readings", "list", Len(s), fid,
                                 [i \in DOMAIN s |-> Entity("readings", s[i])]))
             ELSE Done(p, RetRaise("get_failure_readings", "ConnectionError", fid))
    /\ UNCHANGED <<db, indexes, now, nextId, okResolves>>

\* get_reading_predictions(db, reading_id): no sort, so natural order.
get_reading_predictions(p) ==
    /\ pc[p] = "idle"
    /\ \E reading_id \in AnyIdArgs, ok \in BOOLEAN :
          LET rid == NormalizeId(reading_id)
              s == Find(db["predictions"], [reading_id |-> rid])
          IN IF ok
             THEN Done(p, Ret("get_reading_predictions", "list", Len(s), rid,
                              [i \in DOMAIN s |-> Entity("predictions", s[i])]))
             ELSE Done(p, RetRaise("get_reading_predictions", "ConnectionError", rid))
    /\ UNCHANGED <<db, indexes, now, nextId, okResolves>>

\* The relationship lookups and get_documents.
LookupOps ==
    {"get_document_by_id", "get_machine_readings", "get_machine_failures",
     "get_failure_readings", "get_reading_predictions", "get_active_failures",
     "get_readings_in_timerange", "get_documents"}

\* No lookup has been taken yet.  A lookup changes nothing that a later
\* step reads, so what can follow it is what could have followed without it:
\* each behaviour is a run of writers, one call at a time, closed by one
\* lookup.
NoLookupYet == ret.op \notin LookupOps

NextLookup ==
    \/ \E p \in Procs : NoLookupYet /\ AllIdle /\ create_failure(p)
    \/ \E p \in Procs : NoLookupYet /\ AllIdle /\ create_sensor_reading(p)
    \/ \E p \in Procs : NoLookupYet /\ sr_touch(p)
    \/ \E p \in Procs : NoLookupYet /\ AllIdle /\ create_model_version(p)
    \/ \E p \in Procs : NoLookupYet /\ get_document_by_id(p)
    \/ \E p \in Procs : NoLookupYet /\ get_machine_readings(p)
    \/ \E p \in Procs : NoLookupYet /\ get_machine_failures(p)
    \/ \E p \in Procs : NoLookupYet /\ get_failure_readings(p)
    \/ \E p \in Procs : NoLookupYet /\ get_reading_predictions(p)
    \/ \E p \in Procs : NoLookupYet /\ get_active_failures(p)
    \/ \E p \in Procs : NoLookupYet /\ get_readings_in_timerange(p)
    \/ \E p \in Procs : NoLookupYet /\ get_documents(p)

SpecLookup == Init /\ [][NextLookup]_vars

\* C29: a step of a relationship lookup or of get_documents, whether it
\* returns or fails, leaves every collection and every index as it was, and
\* leaves no call in flight.
C29_LookupsReadOnly ==
    [][(ret'.op \in LookupOps)
       => /\ db' = db
          /\ indexes' = indexes
          /\ nextId' = nextId
          /\ \A p \in Procs : pc'[p] # pc[p] => pc'[p] = "idle"]_vars

\* get_machine_readings has returned two readings of one machine.
C29_Witness ==
    /\ ret.op = "get_machine_readings"
    /\ ret.tag = "list"
    /\ Len(ret.docs) = 2
    /\ Len(db["readings"]) = 2

====
